---- MODULE Spec2Model ----
(***************************************************************************)
(* A model of git-ledger: GitLedger (src/src/ledger.rs), the compare-and-  *)
(* swap ledger on a remote branch, and BlobGitLedger / BlobGitLedgerGuard  *)
(* (src/src/blob_ledger.rs), the lease lock built on it, and init_repo     *)
(* (src/src/util.rs), which opens or creates the local store.              *)
(*                                                                         *)
(* Every process owns one GitLedger handle with its own local store.  A    *)
(* step of the model is one interaction with the remote (a fetch, a git    *)
(* push) together with the local computation around it.  A commit id is    *)
(* the index of the commit in `commits`; 0 stands for None.                *)
(***************************************************************************)
EXTENDS Integers, Sequences, FiniteSets, TLC

\* ------------------------------------------------------------------ bounds
MaxCalls == 3
MaxLease == 1
MaxLen == 1
LeaseLength == 2
PollTime == 1
Rounds == 1
WorkerCalls == 6

Procs == {1, 2}
Slots == {1, 2}
None == 0
Leases == 0 .. MaxLease
Space == 32
\* `for attempt in 0..20`
Attempts == 20
\* the payloads: strings of spaces, as test_lease writes them; those the
\* callers of update pass, and those the workers of test_lease reach
Strings(len) == UNION {[1 .. n -> {Space}] : n \in 0 .. len}
Payloads == Strings(MaxLen)
Blobs == Strings(IF MaxLen > 2 * Rounds THEN MaxLen ELSE 2 * Rounds)

VARIABLES
  commits,       \* the commits the remote has accepted: [parent, tree, prev]
  branch,        \* the remote's refs/heads/<branch> (None: no such branch)
  branch_ref,    \* per handle: the local refs/heads/<branch>
  tracking_ref,  \* per handle: the local remotes/<remote>/<branch>
  tmp_ref,       \* per handle: whether refs/tmp/tmp<random> exists
  pc,            \* per process: where it stands
  call,          \* per process: the operation in progress and its arguments
  lk,            \* per process: the locals of lock()
  guards,        \* per process and slot: a BlobGitLedgerGuard
  ret,           \* per process: what its last operation returned
  calls,         \* the calls of the API that may still begin
  recent,        \* the newest commit was written in the clock second that runs
  quiet,         \* the time since the remote branch last moved, counted up to
                 \* lease_length, kept only to state the timing claims
  wins,          \* per process: its update_with, update_once_with and
                 \* update_and_release calls that succeeded
  wiped,         \* the processes whose local store was removed and re-created
  remote,        \* the local store init_repo is called on has the named remote
  ir             \* per process: the locals of init_repo

vars == <<commits, branch, branch_ref, tracking_ref, tmp_ref, pc, call, lk,
          guards, ret, calls, recent, quiet, wins, wiped, remote, ir>>

\* ------------------------------------------------------------- lease codec
HexChars == <<"0", "1", "2", "3", "4", "5", "6", "7",
              "8", "9", "a", "b", "c", "d", "e", "f">>

\* u64::to_le_bytes: the eight bytes of the lease, lowest first
RECURSIVE le_bytes(_, _)
le_bytes(n, k) == IF k = 0 THEN <<>> ELSE <<n % 256>> \o le_bytes(n \div 256, k - 1)

\* the eight bytes of the lease, highest first
to_be_bytes(lease) == [i \in 1 .. 8 |-> le_bytes(lease, 8)[9 - i]]

to_le_bytes(lease) == le_bytes(lease, 8)

\* u64::from_le_bytes
RECURSIVE from_le_bytes(_)
from_le_bytes(bytes) ==
  IF bytes = <<>> THEN 0 ELSE Head(bytes) + 256 * from_le_bytes(Tail(bytes))

\* hex::encode: two lowercase digits per byte, high nibble first
RECURSIVE hex_encode(_)
hex_encode(bytes) ==
  IF bytes = <<>> THEN <<>>
  ELSE <<HexChars[(Head(bytes) \div 16) + 1], HexChars[(Head(bytes) % 16) + 1]>>
         \o hex_encode(Tail(bytes))

\* the value of one hex digit, -1 when the character is none
HexVal(c) ==
  CASE c \in {"A", "B", "C", "D", "E", "F"} ->
         (CHOOSE i \in 10 .. 15 : <<"A", "B", "C", "D", "E", "F">>[i - 9] = c)
    [] \E i \in 1 .. 16 : HexChars[i] = c ->
         (CHOOSE i \in 0 .. 15 : HexChars[i + 1] = c)
    [] OTHER -> -1

\* hex::decode: <<TRUE, bytes>> or <<FALSE, <<>>>> (odd length, invalid digit)
RECURSIVE hex_decode(_)
hex_decode(chars) ==
  IF chars = <<>> THEN <<TRUE, <<>>>>
  ELSE IF Len(chars) = 1 THEN <<FALSE, <<>>>>
  ELSE LET hi == HexVal(chars[1])
           lo == HexVal(chars[2])
           rest == hex_decode(Tail(Tail(chars)))
       IN  IF hi < 0 \/ lo < 0 \/ ~rest[1] THEN <<FALSE, <<>>>>
           ELSE <<TRUE, <<16 * hi + lo>> \o rest[2]>>

\* encode: one entry, named by the lease, holding the payload blob
\* an encode that loses the payload
encode_empty(data, lease) ==
  << [filename |-> hex_encode(to_le_bytes(lease)), oid |-> <<>>] >>

encode(data, lease) ==
  << [filename |-> hex_encode(to_le_bytes(lease)), oid |-> data] >>

\* decode: [kind |-> "ok", data, lease], an error, or the panic of line 206
decode(tree) ==
  IF Len(tree) > 1 THEN [kind |-> "err", data |-> <<>>, lease |-> 0]
  ELSE IF Len(tree) = 0 THEN [kind |-> "panic", data |-> <<>>, lease |-> 0]
  ELSE LET filename == hex_decode(tree[1].filename)
       IN  IF ~filename[1] \/ Len(filename[2]) # 8
             THEN [kind |-> "err", data |-> <<>>, lease |-> 0]
             ELSE [kind |-> "ok", data |-> tree[1].oid,
                   lease |-> from_le_bytes(filename[2])]

\* ------------------------------------------------------------ object store
\* the commits walked from `id` (rev_walk([id]).all()), `id` included
RECURSIVE Walk(_)
Walk(id) == IF id = None THEN {} ELSE {id} \cup Walk(commits[id].parent)

is_ancestor(old, new) == old \in Walk(new)

\* a fast_forward that moves the ref wherever the target is
fast_forward_forced(cur_target, id) == <<TRUE, id>>

\* fast_forward: <<ok, the new value of the ref>>
fast_forward(cur_target, id) ==
  IF cur_target = None THEN <<TRUE, id>>
  ELSE IF cur_target = id THEN <<TRUE, cur_target>>
  ELSE IF is_ancestor(cur_target, id) THEN <<TRUE, id>>
  ELSE <<FALSE, cur_target>>

fast_forward_reference(cur_target, future) ==
  IF future = None THEN <<TRUE, cur_target>> ELSE fast_forward(cur_target, future)

\* Repository::commit: the id of the commit object with this parent and
\* tree. The id is the hash of the object, whose other fields are the fixed
\* message, the configured identity and the time in whole seconds: written
\* twice within one second, the same parent and tree are the same commit.
\* Of the commits written before, only the newest can be met again by a
\* push the remote takes, so the time is kept of that one alone.
commit_id(parent, tree) ==
  IF /\ recent
     /\ commits # <<>>
     /\ commits[Len(commits)].parent = parent
     /\ commits[Len(commits)].tree = tree
    THEN Len(commits)
    ELSE Len(commits) + 1

\* a remote that takes every push, as `git push --force` would
RemoteAcceptsAny(new_commit_id, old_commit_id) == TRUE

\* what the remote answers to `git push <remote> <tmp_ref>:<branch_ref>` when
\* the ephemeral ref is at new_commit_id, a commit whose parent is
\* old_commit_id: the push succeeds iff it creates the branch or the branch
\* is new_commit_id already or one of its ancestors (a fast-forward)
RemoteAccepts(new_commit_id, old_commit_id) ==
  \/ branch = None
  \/ branch \in {new_commit_id} \cup Walk(old_commit_id)

\* a fetch that never reaches the remote
fetch_refs_offline(p) == <<TRUE, branch_ref[p], tracking_ref[p]>>

\* fetch_refs: the tracking ref takes the remote's branch, then the local
\* branch ref is fast-forwarded to it: <<ok, branch_ref, tracking_ref>>
fetch_refs(p) ==
  LET tracking == IF branch = None THEN tracking_ref[p] ELSE branch
      ff == fast_forward_reference(branch_ref[p], tracking)
  IN  <<ff[1], ff[2], tracking>>

\* a maybe_raced that takes every failed push for a race
maybe_raced_always(old_commit_id, remote_id) == TRUE

\* maybe_raced, given the tracking ref fetch_refs left
maybe_raced(old_commit_id, remote_id) == old_commit_id # remote_id

\* ------------------------------------------------- the trees of the tests
single == <<"s", "i", "n", "g", "l", "e">>
double == <<"d", "o", "u", "b", "l", "e">>

\* u64::to_string and str::parse::<u64>, over ASCII bytes
RECURSIVE to_string(_)
to_string(n) ==
  IF n < 10 THEN <<48 + n>> ELSE to_string(n \div 10) \o <<48 + (n % 10)>>

RECURSIVE parse(_)
parse(bytes) ==
  IF bytes = <<>> THEN -1
  ELSE LET d == bytes[Len(bytes)] - 48
           init == SubSeq(bytes, 1, Len(bytes) - 1)
       IN  IF d < 0 \/ d > 9 THEN -1
           ELSE IF init = <<>> THEN d
           ELSE IF parse(init) < 0 THEN -1 ELSE 10 * parse(init) + d

CounterTree(n) == << [filename |-> single, oid |-> to_string(n)] >>

\* the transform of test_update_with: <<TRUE, tree>>, or <<FALSE, _>> when
\* one of its unwrap() calls panics
Increment(state) ==
  IF state = <<>> THEN <<TRUE, CounterTree(0)>>
  ELSE LET tree == state[1]
           hit == {i \in 1 .. Len(tree) : tree[i].filename = single}
       IN  IF hit = {} THEN <<FALSE, <<>>>>
           ELSE LET a == parse(tree[CHOOSE i \in hit : TRUE].oid)
                IN  IF a < 0 THEN <<FALSE, <<>>>>
                    ELSE <<TRUE, CounterTree(a + 1)>>

\* the trees of test_conflict
tb1 == << [filename |-> single, oid |-> <<48>>] >>
tb2 == << [filename |-> double, oid |-> <<50, 55>>] >>
RawTrees == {tb1, tb2}

\* trees that decode meets when others than BlobGitLedger write the branch:
\* TreeBuilder::empty(), two entries, names of 4 and of 9 bytes, a name of
\* 8 bytes in upper-case digits
empty == <<>>
two_entries == << [filename |-> hex_encode(le_bytes(0, 8)), oid |-> <<>>],
                  [filename |-> hex_encode(le_bytes(1, 8)), oid |-> <<>>] >>
short_name == << [filename |-> hex_encode(le_bytes(1, 4)), oid |-> <<>>] >>
long_name == << [filename |-> hex_encode(le_bytes(1, 9)), oid |-> <<>>] >>
upper_name == << [filename |-> <<"0", "A">> \o hex_encode(le_bytes(0, 7)),
                  oid |-> <<Space>>] >>
ForeignTrees == {empty, two_entries, short_name, long_name, upper_name, tb1}

\* ------------------------------------------------------ the object database
\* A tree is written once and named by its hash: here, by its place in the
\* list of the trees the processes can write.
RECURSIVE SetToSeq(_)
SetToSeq(S) ==
  IF S = {} THEN <<>>
  ELSE LET x == CHOOSE x \in S : TRUE IN <<x>> \o SetToSeq(S \ {x})

Objects ==
  SetToSeq({encode(d, l) : d \in Blobs, l \in Leases}
           \cup RawTrees \cup ForeignTrees
           \cup {CounterTree(n) : n \in 0 .. MaxCalls})

\* Repository::write_object of a tree: its id
write_object(tree) == CHOOSE i \in DOMAIN Objects : Objects[i] = tree

\* encode and decode over ids, tabulated
Encoded == [d \in Blobs, l \in Leases |-> write_object(encode(d, l))]
Decoded == [i \in DOMAIN Objects |-> decode(Objects[i])]
Written == [t \in RawTrees \cup ForeignTrees |-> write_object(t)]

\* ---------------------------------------------------------------- state
\* old_lease: `let old_lease = self.lease;` of the calls on a guard
NoCall == [op |-> "none", old_commit_id |-> None, tree |-> 0,
           data |-> <<>>, lease |-> 0, old_lease |-> 0, slot |-> 0,
           pending |-> "none"]
\* old_lease, start_time (as the time elapsed since it) and the sleep left;
\* first and age: the remote branch at the call's first fetch and the time
\* since it, kept only to state the timing claims
NoLock == [old_lease |-> 0, elapsed |-> 0, sleep |-> 0, first |-> -1, age |-> 0]
NoGuard == [state |-> "none", commit |-> None, lease |-> 0, data |-> <<>>]
NoRet == [op |-> "none", kind |-> "none", commit |-> None, parent |-> None]
\* retryable, attempt; repo: the handle was opened on a store that had the
\* remote; live: the handle sees a remote added since; slept and added: the sleeps and the `git remote add` commands of
\* the call so far
NoInit == [retryable |-> FALSE, attempt |-> 0, repo |-> FALSE, live |-> FALSE,
           slept |-> 0, added |-> 0]

Start(n) ==
  /\ commits = <<>>
  /\ branch = None
  /\ branch_ref = [p \in Procs |-> None]
  /\ tracking_ref = [p \in Procs |-> None]
  /\ tmp_ref = [p \in Procs |-> FALSE]
  /\ pc = [p \in Procs |-> "idle"]
  /\ call = [p \in Procs |-> NoCall]
  /\ lk = [p \in Procs |-> NoLock]
  /\ guards = [p \in Procs |-> [s \in Slots |-> NoGuard]]
  /\ ret = [p \in Procs |-> NoRet]
  /\ calls = n
  /\ recent = FALSE
  /\ quiet = 0
  /\ wins = [p \in Procs |-> 0]
  /\ wiped = {}
  /\ remote = TRUE
  /\ ir = [p \in Procs |-> NoInit]

Init == Start(MaxCalls)

\* a drop that pushes the lease the guard holds
DropCallKeepsLease(g, pending) ==
  [op |-> "drop", old_commit_id |-> g.commit, tree |-> Encoded[g.data, g.lease],
   data |-> g.data, lease |-> g.lease, old_lease |-> g.lease, slot |-> 0,
   pending |-> pending]

\* the release push every guard makes when it is dropped
DropCall(g, pending) ==
  [op |-> "drop", old_commit_id |-> g.commit, tree |-> Encoded[g.data, 0],
   data |-> g.data, lease |-> 0, old_lease |-> g.lease, slot |-> 0,
   pending |-> pending]

\* a release that keeps the commit it pushed, as update and renew do
released_at_tip(g, r) == [g EXCEPT !.commit = IF r.kind = "ok" THEN r.commit ELSE @]

\* the guard when release or update_and_release has made its push with
\* result r: neither assigns a field of the guard
released(g, r) == g

\* a call of the API begins: its result is not there yet
Begin(p) ==
  /\ calls > 0
  /\ calls' = calls - 1
  /\ UNCHANGED <<recent, quiet>>
  /\ ret' = [ret EXCEPT ![p] = NoRet]

\* an update_once_with that tries again as well
retries_always(op, kind) == kind = "raced"

\* update_with: the loop around update_once_with goes on when the attempt
\* returned None; update_once_with itself returns whatever push returned
retries(op, kind) == op = "update_with" /\ kind = "raced"

\* what the caller of push does with push's result r
Return(p, r) ==
  LET c == call[p]
      g == IF c.slot \in Slots THEN guards[p][c.slot] ELSE NoGuard
      done(kind, commit) ==
        /\ pc' = [pc EXCEPT ![p] = "idle"]
        /\ call' = [call EXCEPT ![p] = NoCall]
        /\ ret' = [ret EXCEPT ![p] = [op |-> c.op, kind |-> kind, commit |-> commit,
                                      parent |-> IF c.op = "push" THEN c.old_commit_id
                                                 ELSE None]]
      lost == IF r.kind = "raced" THEN "lost" ELSE r.kind
  IN
  /\ wins' = IF /\ c.op \in {"update_with", "update_once_with", "update_and_release"}
                 /\ c.pending = "none" /\ r.kind = "ok"
              THEN [wins EXCEPT ![p] = @ + 1] ELSE wins
  /\ UNCHANGED <<wiped, remote, ir>>
  /\ CASE c.op = "push" ->
         /\ done(r.kind, r.commit)
         /\ UNCHANGED <<lk, guards>>
    [] c.op \in {"update_once_with", "update_with"} ->
         /\ IF retries(c.op, r.kind)
              THEN /\ pc' = [pc EXCEPT ![p] = "update_fetch"]
                   /\ UNCHANGED <<call, ret>>
              ELSE done(r.kind, None)
         /\ UNCHANGED <<lk, guards>>
    [] c.op = "lock" ->
         /\ IF r.kind = "raced"
              THEN \* the outer loop starts again
                   /\ pc' = [pc EXCEPT ![p] = "lock_fetch"]
                   /\ lk' = [lk EXCEPT ![p].old_lease = 0, ![p].elapsed = 0]
                   /\ UNCHANGED <<call, ret>>
              ELSE /\ done(r.kind, r.commit)
                   /\ lk' = [lk EXCEPT ![p] = NoLock]
         /\ guards' = IF r.kind = "ok"
                        THEN [guards EXCEPT ![p][1] =
                                [state |-> "held", commit |-> r.commit,
                                 lease |-> c.lease, data |-> c.data]]
                        ELSE guards
    [] c.op \in {"update", "renew"} ->
         /\ done(lost, None)
         /\ guards' = IF r.kind = "ok"
                        THEN [guards EXCEPT ![p][c.slot].commit = r.commit,
                                            ![p][c.slot].data = c.data]
                        ELSE guards
         /\ UNCHANGED lk
    [] c.op \in {"release", "update_and_release"} /\ c.pending = "none" ->
         \* the guard, taken by value, is dropped before the call returns
         /\ pc' = [pc EXCEPT ![p] = "push"]
         /\ call' = [call EXCEPT ![p] = [DropCall(released(g, r), lost) EXCEPT !.op = c.op,
                                                 !.slot = c.slot]]
         /\ UNCHANGED <<lk, guards, ret>>
    [] OTHER ->
         \* Drop::drop has run: its result is ignored
         /\ done(IF c.op = "drop" THEN "ok" ELSE c.pending, None)
         /\ guards' = [guards EXCEPT ![p][c.slot] = NoGuard]
         /\ UNCHANGED lk

\* ------------------------------------------------------- GitLedger::push
\* the commit on tmp_ref and the external git push
PushStep(p) ==
  /\ UNCHANGED calls
  /\ pc[p] = "push"
  /\ IF tmp_ref[p]
       THEN \* commit to git: the ephemeral ref exists and is not the parent
            /\ Return(p, [kind |-> "err", commit |-> None])
            /\ UNCHANGED <<commits, branch, branch_ref, tracking_ref, tmp_ref,
                           recent, quiet>>
       ELSE LET new_commit_id == commit_id(call[p].old_commit_id, call[p].tree) IN
       IF RemoteAccepts(new_commit_id, call[p].old_commit_id)
       THEN /\ commits' = IF new_commit_id \in DOMAIN commits THEN commits
                          ELSE Append(commits,
                                      [parent |-> call[p].old_commit_id,
                                       tree |-> call[p].tree,
                                       prev |-> branch])
            /\ branch' = new_commit_id
            /\ recent' = TRUE
            /\ quiet' = IF new_commit_id = branch THEN quiet ELSE 0
            /\ Return(p, [kind |-> "ok", commit |-> new_commit_id])
            /\ UNCHANGED <<branch_ref, tracking_ref, tmp_ref>>
       ELSE /\ tmp_ref' = [tmp_ref EXCEPT ![p] = TRUE]
            /\ pc' = [pc EXCEPT ![p] = "maybe_raced"]
            /\ UNCHANGED <<commits, branch, branch_ref, tracking_ref, call, lk,
                           guards, ret, wins, wiped, remote, ir, recent, quiet>>

\* the push was rejected: maybe_raced, then the ephemeral ref is deleted
MaybeRacedStep(p) ==
  /\ UNCHANGED <<calls, recent, quiet>>
  /\ pc[p] = "maybe_raced"
  /\ LET fr == fetch_refs(p)
     IN  /\ branch_ref' = [branch_ref EXCEPT ![p] = fr[2]]
         /\ tracking_ref' = [tracking_ref EXCEPT ![p] = fr[3]]
         /\ IF ~fr[1]
              THEN /\ tmp_ref' = [tmp_ref EXCEPT ![p] = FALSE]
                   /\ Return(p, [kind |-> "err", commit |-> None])
              ELSE IF maybe_raced(call[p].old_commit_id, fr[3])
              THEN /\ tmp_ref' = [tmp_ref EXCEPT ![p] = FALSE]
                   /\ Return(p, [kind |-> "raced", commit |-> None])
              ELSE \* bail!: returns at once, past the deletion
                   /\ Return(p, [kind |-> "err", commit |-> None])
                   /\ UNCHANGED tmp_ref
  /\ UNCHANGED <<commits, branch>>

\* `git push` exits with a failure for a reason of its own (the remote
\* refuses the update, the connection breaks): the remote is as it was
PushRejectedStep(p) ==
  /\ pc[p] = "push"
  /\ ~tmp_ref[p]
  /\ tmp_ref' = [tmp_ref EXCEPT ![p] = TRUE]
  /\ pc' = [pc EXCEPT ![p] = "maybe_raced"]
  /\ UNCHANGED <<commits, branch, branch_ref, tracking_ref, call, lk, guards,
                 ret, calls, recent, quiet, wins, wiped, remote, ir>>

\* `Err(e) => Err(e).context("subprocess failed")`: git could not be run;
\* the ephemeral ref, written by the commit, is deleted
SubprocessFailedStep(p) ==
  /\ pc[p] = "push"
  /\ ~tmp_ref[p]
  /\ Return(p, [kind |-> "err", commit |-> None])
  /\ UNCHANGED <<commits, branch, branch_ref, tracking_ref, tmp_ref, calls,
                 recent, quiet>>

\* `Err(e) => Err(e).context("maybe raced")`: the fetch of maybe_raced
\* fails; the ephemeral ref is deleted
MaybeRacedFetchFailedStep(p) ==
  /\ pc[p] = "maybe_raced"
  /\ tmp_ref' = [tmp_ref EXCEPT ![p] = FALSE]
  /\ Return(p, [kind |-> "err", commit |-> None])
  /\ UNCHANGED <<commits, branch, branch_ref, tracking_ref, calls, recent, quiet>>

\* ----------------------------------------------------- GitLedger, direct
Fetch(p) ==
  /\ calls > 0
  /\ calls' = calls - 1
  /\ UNCHANGED <<recent, quiet>>
  /\ UNCHANGED <<wins, wiped, remote, ir>>
  /\ pc[p] = "idle"
  /\ LET fr == fetch_refs(p)
     IN  /\ branch_ref' = [branch_ref EXCEPT ![p] = fr[2]]
         /\ tracking_ref' = [tracking_ref EXCEPT ![p] = fr[3]]
         /\ ret' = [ret EXCEPT ![p] = [op |-> "fetch",
                                       kind |-> IF fr[1] THEN "ok" ELSE "err",
                                       commit |-> IF fr[1] THEN fr[2] ELSE None,
                                       parent |-> None]]
  /\ UNCHANGED <<commits, branch, tmp_ref, pc, call, lk, guards>>

Push(p, old_commit_id, tree) ==
  /\ Begin(p)
  /\ UNCHANGED <<wins, wiped, remote, ir>>
  /\ pc[p] = "idle"
  /\ pc' = [pc EXCEPT ![p] = "push"]
  /\ call' = [call EXCEPT ![p] = [NoCall EXCEPT !.op = "push",
                                                !.old_commit_id = old_commit_id,
                                                !.tree = Written[tree]]]
  /\ UNCHANGED <<commits, branch, branch_ref, tracking_ref, tmp_ref, lk,
                 guards>>

UpdateWith(p, op) ==
  /\ Begin(p)
  /\ UNCHANGED <<wins, wiped, remote, ir>>
  /\ pc[p] = "idle"
  /\ pc' = [pc EXCEPT ![p] = "update_fetch"]
  /\ call' = [call EXCEPT ![p] = [NoCall EXCEPT !.op = op]]
  /\ UNCHANGED <<commits, branch, branch_ref, tracking_ref, tmp_ref, lk,
                 guards>>

\* update_once_with up to its push: fetch, then the transform
UpdateFetch(p) ==
  /\ UNCHANGED <<calls, recent, quiet, wins, wiped, remote, ir>>
  /\ pc[p] = "update_fetch"
  /\ LET fr == fetch_refs(p)
         f == Increment(IF fr[2] = None THEN <<>>
                        ELSE <<Objects[commits[fr[2]].tree]>>)
     IN  /\ branch_ref' = [branch_ref EXCEPT ![p] = fr[2]]
         /\ tracking_ref' = [tracking_ref EXCEPT ![p] = fr[3]]
         /\ IF ~fr[1]
              THEN /\ pc' = [pc EXCEPT ![p] = "idle"]
                   /\ call' = [call EXCEPT ![p] = NoCall]
                   /\ ret' = [ret EXCEPT ![p] = [NoRet EXCEPT !.op = call[p].op,
                                                              !.kind = "err"]]
              ELSE IF ~f[1]
              THEN /\ pc' = [pc EXCEPT ![p] = "panicked"]
                   /\ UNCHANGED <<call, ret>>
              ELSE /\ pc' = [pc EXCEPT ![p] = "push"]
                   /\ call' = [call EXCEPT ![p].old_commit_id = fr[2],
                                           ![p].tree = write_object(f[2])]
                   /\ UNCHANGED ret
  /\ UNCHANGED <<commits, branch, tmp_ref, lk, guards>>

\* test_update_with: the local store is removed and created again
WipeStore(p) ==
  /\ UNCHANGED <<calls, recent, quiet, wins>>
  /\ wiped' = wiped \cup {p}
  /\ UNCHANGED <<remote, ir>>
  /\ ret' = [ret EXCEPT ![p] = NoRet]
  /\ pc[p] = "idle"
  /\ \A s \in Slots : guards[p][s].state = "none"
  /\ branch_ref[p] # None
  /\ branch_ref' = [branch_ref EXCEPT ![p] = None]
  /\ tracking_ref' = [tracking_ref EXCEPT ![p] = None]
  /\ tmp_ref' = [tmp_ref EXCEPT ![p] = FALSE]
  /\ UNCHANGED <<commits, branch, pc, call, lk, guards>>

\* the clock reaches the next second
Second ==
  /\ recent
  /\ recent' = FALSE
  /\ UNCHANGED quiet
  /\ UNCHANGED <<commits, branch, branch_ref, tracking_ref, tmp_ref, pc, call,
                 lk, guards, ret, calls, wins, wiped, remote, ir>>

NextLedger ==
  \/ Second
  \/ \E p \in Procs :
    \/ PushStep(p)
    \/ MaybeRacedStep(p)
    \/ Fetch(p)
    \/ \E old \in {None, branch_ref[p], ret[p].commit}, tree \in RawTrees : Push(p, old, tree)
    \/ UpdateWith(p, "update_once_with")
    \/ UpdateWith(p, "update_with")
    \/ UpdateFetch(p)
    \/ WipeStore(p)

SpecLedger == Init /\ [][NextLedger]_vars

\* handles that push and fetch, one call more than elsewhere: a handle
\* fetches, falls behind the pushes of the other and fetches again
NextFetch ==
  \/ Second
  \/ \E p \in Procs :
    \/ PushStep(p)
    \/ MaybeRacedStep(p)
    \/ Fetch(p)
    \/ \E old \in {None, branch_ref[p], ret[p].commit} : Push(p, old, tb1)
    \/ WipeStore(p)

SpecFetch == Start(MaxCalls + 1) /\ [][NextFetch]_vars

\* pushes and fetches against a remote, and over a connection, that can fail
NextFaulty ==
  \/ Second
  \/ \E p \in Procs :
    \/ PushStep(p)
    \/ PushRejectedStep(p)
    \/ SubprocessFailedStep(p)
    \/ MaybeRacedStep(p)
    \/ MaybeRacedFetchFailedStep(p)
    \/ Fetch(p)
    \/ \E old \in {None, branch_ref[p], ret[p].commit}, tree \in RawTrees : Push(p, old, tree)

SpecFaulty == Start(MaxCalls + 1) /\ [][NextFaulty]_vars

\* test_update_with: all the handles do is update the counter
NextCounter ==
  \/ Second
  \/ \E p \in Procs :
    \/ PushStep(p)
    \/ MaybeRacedStep(p)
    \/ UpdateWith(p, "update_once_with")
    \/ UpdateWith(p, "update_with")
    \/ UpdateFetch(p)
    \/ WipeStore(p)

SpecCounter == Init /\ [][NextCounter]_vars
\* -------------------------------------------------- BlobGitLedger::lock
Min(a, b) == IF a < b THEN a ELSE b

\* a lock that takes an absent branch for a lease that is held
no_remote_data_leased == [kind |-> "ok", data |-> <<>>, lease |-> 1]

\* `None => (None, Vec::default(), 0)`: no remote data, the default
no_remote_data == [kind |-> "ok", data |-> <<>>, lease |-> 0]

\* a lock that never waits for a lease to run out
expired_at_once(elapsed) == TRUE

\* a lock that waits for ever
expired_never(elapsed) == FALSE

\* `elapsed >= self.lease_length`
expired(elapsed) == elapsed >= LeaseLength

Lock(p) ==
  /\ Begin(p)
  /\ UNCHANGED <<wins, wiped, remote, ir>>
  /\ pc[p] = "idle"
  /\ guards[p][1].state = "none"
  /\ pc' = [pc EXCEPT ![p] = "lock_fetch"]
  /\ call' = [call EXCEPT ![p] = [NoCall EXCEPT !.op = "lock"]]
  /\ lk' = [lk EXCEPT ![p] = NoLock]
  /\ UNCHANGED <<commits, branch, branch_ref, tracking_ref, tmp_ref, guards>>

\* one turn of the inner loop: fetch, decode, then claim, steal or sleep
LockFetch(p) ==
  /\ UNCHANGED <<calls, recent, quiet, wins, wiped, remote, ir>>
  /\ pc[p] = "lock_fetch"
  /\ lk[p].sleep = 0
  /\ LET fr == fetch_refs(p)
         d == IF fr[2] = None THEN no_remote_data
              ELSE Decoded[commits[fr[2]].tree]
         old_lease == IF d.lease # lk[p].old_lease THEN d.lease ELSE lk[p].old_lease
         elapsed == IF d.lease # lk[p].old_lease THEN 0 ELSE lk[p].elapsed
         seen == [lk[p] EXCEPT !.first = IF @ = -1 THEN branch ELSE @]
         fail(kind) ==
           /\ pc' = [pc EXCEPT ![p] = "idle"]
           /\ call' = [call EXCEPT ![p] = NoCall]
           /\ lk' = [lk EXCEPT ![p] = NoLock]
           /\ ret' = [ret EXCEPT ![p] = [NoRet EXCEPT !.op = "lock", !.kind = kind]]
     IN  /\ branch_ref' = [branch_ref EXCEPT ![p] = fr[2]]
         /\ tracking_ref' = [tracking_ref EXCEPT ![p] = fr[3]]
         /\ IF ~fr[1] \/ d.kind = "err" THEN fail("err")
            ELSE IF d.kind = "panic"
            THEN /\ pc' = [pc EXCEPT ![p] = "panicked"]
                 /\ UNCHANGED <<call, lk, ret>>
            ELSE IF d.lease = 0 \/ expired(elapsed)
            THEN \* break: a fresh lease is drawn and the claim is pushed
                 \E lease \in Leases :
                   /\ pc' = [pc EXCEPT ![p] = "push"]
                   /\ call' = [call EXCEPT ![p].old_commit_id = fr[2],
                                           ![p].tree = Encoded[d.data, lease],
                                           ![p].data = d.data,
                                           ![p].lease = lease]
                   /\ lk' = [lk EXCEPT ![p] = [seen EXCEPT !.old_lease = old_lease,
                                                           !.elapsed = elapsed]]
                   /\ UNCHANGED ret
            ELSE /\ lk' = [lk EXCEPT ![p] =
                             [seen EXCEPT !.old_lease = old_lease,
                                          !.elapsed = elapsed,
                                          !.sleep = Min(PollTime, LeaseLength - elapsed)]]
                 /\ UNCHANGED <<pc, call, ret>>
  /\ UNCHANGED <<commits, branch, tmp_ref, guards>>

\* time passes: sleeps run down, the waits of the lock calls grow; the time
\* since a call's first fetch is counted up to `cap`
Sleep(cap) ==
  /\ UNCHANGED <<calls, recent, wins, wiped, remote, ir>>
  /\ \E p \in Procs : pc[p] = "lock_fetch"
  /\ lk' = [p \in Procs |->
              IF pc[p] = "lock_fetch"
                THEN [lk[p] EXCEPT !.sleep = IF @ > 0 THEN @ - 1 ELSE 0,
                                   !.elapsed = Min(LeaseLength, @ + 1),
                                   !.age = IF lk[p].first = -1 THEN 0
                                           ELSE Min(cap, @ + 1)]
                ELSE lk[p]]
  /\ UNCHANGED <<commits, branch, branch_ref, tracking_ref, tmp_ref, pc, call,
                 guards, ret>>

Pass(cap) ==
  /\ Sleep(cap)
  /\ lk' # lk
  /\ UNCHANGED quiet

\* the same, the time since the remote branch moved being counted
Elapse ==
  /\ Sleep(LeaseLength)
  /\ quiet' = Min(LeaseLength, quiet + 1)
  /\ lk' # lk \/ quiet' # quiet

Tick == Pass(LeaseLength)

\* --------------------------------------------------- BlobGitLedgerGuard
GuardCall(p, s, op, data, lease) ==
  [op |-> op, old_commit_id |-> guards[p][s].commit, tree |-> Encoded[data, lease],
   data |-> data, lease |-> lease, old_lease |-> guards[p][s].lease, slot |-> s,
   pending |-> "none"]

Update(p, s, data) ==
  /\ Begin(p)
  /\ UNCHANGED <<wins, wiped, remote, ir>>
  /\ pc[p] = "idle"
  /\ guards[p][s].state = "held"
  /\ \E lease \in Leases :
       /\ guards' = [guards EXCEPT ![p][s].lease = lease]
       /\ call' = [call EXCEPT ![p] = GuardCall(p, s, "update", data, lease)]
  /\ pc' = [pc EXCEPT ![p] = "push"]
  /\ UNCHANGED <<commits, branch, branch_ref, tracking_ref, tmp_ref, lk>>

Renew(p, s) ==
  /\ Begin(p)
  /\ UNCHANGED <<wins, wiped, remote, ir>>
  /\ pc[p] = "idle"
  /\ guards[p][s].state = "held"
  /\ \E lease \in Leases :
       /\ guards' = [guards EXCEPT ![p][s].lease = lease]
       /\ call' = [call EXCEPT ![p] =
                     GuardCall(p, s, "renew", guards[p][s].data, lease)]
  /\ pc' = [pc EXCEPT ![p] = "push"]
  /\ UNCHANGED <<commits, branch, branch_ref, tracking_ref, tmp_ref, lk>>

UpdateAndRelease(p, s, data) ==
  /\ Begin(p)
  /\ UNCHANGED <<wins, wiped, remote, ir>>
  /\ pc[p] = "idle"
  /\ guards[p][s].state = "held"
  /\ guards' = [guards EXCEPT ![p][s].state = "consumed"]
  /\ call' = [call EXCEPT ![p] = GuardCall(p, s, "update_and_release", data, 0)]
  /\ pc' = [pc EXCEPT ![p] = "push"]
  /\ UNCHANGED <<commits, branch, branch_ref, tracking_ref, tmp_ref, lk>>

\* a release that pushes the lease the guard holds
ReleaseKeepsLease(p, s) ==
  /\ Begin(p)
  /\ UNCHANGED <<wins, wiped, remote, ir>>
  /\ pc[p] = "idle"
  /\ guards[p][s].state = "held"
  /\ guards' = [guards EXCEPT ![p][s].state = "consumed"]
  /\ call' = [call EXCEPT ![p] = GuardCall(p, s, "release", guards[p][s].data,
                                            guards[p][s].lease)]
  /\ pc' = [pc EXCEPT ![p] = "push"]
  /\ UNCHANGED <<commits, branch, branch_ref, tracking_ref, tmp_ref, lk>>

\* release, and release_internal under it
Release(p, s) ==
  /\ Begin(p)
  /\ UNCHANGED <<wins, wiped, remote, ir>>
  /\ pc[p] = "idle"
  /\ guards[p][s].state = "held"
  /\ guards' = [guards EXCEPT ![p][s].state = "consumed"]
  /\ call' = [call EXCEPT ![p] = GuardCall(p, s, "release", guards[p][s].data, 0)]
  /\ pc' = [pc EXCEPT ![p] = "push"]
  /\ UNCHANGED <<commits, branch, branch_ref, tracking_ref, tmp_ref, lk>>

\* a guard that goes out of scope
Drop(p, s) ==
  /\ Begin(p)
  /\ UNCHANGED <<wins, wiped, remote, ir>>
  /\ pc[p] = "idle"
  /\ guards[p][s].state = "held"
  /\ guards' = [guards EXCEPT ![p][s].state = "consumed"]
  /\ call' = [call EXCEPT ![p] = [DropCall(guards[p][s], "none") EXCEPT !.slot = s]]
  /\ pc' = [pc EXCEPT ![p] = "push"]
  /\ UNCHANGED <<commits, branch, branch_ref, tracking_ref, tmp_ref, lk>>

\* std::mem::forget(guard) in test_stolen_lease; a holder that crashes
Forget(p, s) ==
  /\ UNCHANGED <<calls, recent, quiet, wins, wiped, remote, ir>>
  /\ pc[p] = "idle"
  /\ guards[p][s].state = "held"
  /\ guards' = [guards EXCEPT ![p][s] = NoGuard]
  /\ UNCHANGED <<commits, branch, branch_ref, tracking_ref, tmp_ref, pc, call,
                 lk, ret>>

\* test_lost_lease: a second guard made of the fields of the first
CloneGuard(p) ==
  /\ UNCHANGED <<calls, recent, quiet, wins, wiped, remote, ir>>
  /\ pc[p] = "idle"
  /\ guards[p][1].state = "held"
  /\ guards[p][2].state = "none"
  /\ guards' = [guards EXCEPT ![p][2] = guards[p][1]]
  /\ UNCHANGED <<commits, branch, branch_ref, tracking_ref, tmp_ref, pc, call,
                 lk, ret>>

NextBlob ==
  \/ Second
  \/ Tick
  \/ \E p \in Procs :
       \/ PushStep(p)
       \/ MaybeRacedStep(p)
       \/ Lock(p)
       \/ LockFetch(p)
       \/ \E data \in Payloads : Update(p, 1, data)
       \/ Renew(p, 1)
       \/ \E data \in Payloads : UpdateAndRelease(p, 1, data)
       \/ Release(p, 1)
       \/ Drop(p, 1)

Spec == Init /\ [][NextBlob]_vars

SpecAll == Init /\ [][NextLedger \/ NextBlob \/ \E p \in Procs : Forget(p, 1)]_vars

\* test_stolen_lease: holders forget their guards (or keep them and go
\* silent) and lock calls wait the leases out. Fetches, pushes and wake-ups
\* take no time here: the clock moves when no step of a call is due.
Due(p) ==
  \/ pc[p] \in {"push", "maybe_raced"}
  \/ pc[p] = "lock_fetch" /\ lk[p].sleep = 0

TickDue ==
  /\ \A p \in Procs : ~Due(p)
  /\ Pass(LeaseLength + PollTime + 1)

NextStolen ==
  \/ Second
  \/ TickDue
  \/ \E p \in Procs :
       \/ PushStep(p)
       \/ MaybeRacedStep(p)
       \/ Lock(p)
       \/ LockFetch(p)
       \/ \E data \in Payloads : Update(p, 1, data)
       \/ Forget(p, 1)

\* the loop of lock and the push under it run on once they have begun
SpecStolen ==
  /\ Init
  /\ [][NextStolen]_vars
  /\ WF_vars(TickDue)
  /\ \A p \in Procs : /\ WF_vars(LockFetch(p))
                       /\ WF_vars(PushStep(p))
                       /\ WF_vars(MaybeRacedStep(p))

\* holders that renew and update while lock calls of others wait
NextRenew ==
  \/ Second
  \/ Elapse
  \/ \E p \in Procs :
       \/ PushStep(p)
       \/ MaybeRacedStep(p)
       \/ Lock(p)
       \/ LockFetch(p)
       \/ \E data \in Payloads : Update(p, 1, data)
       \/ Renew(p, 1)

SpecRenew == Init /\ [][NextRenew]_vars

\* test_lease: worker p (thread t1 is 1, t2 is 2) locks and, when the length
\* of the data is 2 * j (t1) or 2 * j + 1 (t2), for j its rounds done,
\* appends a space with update_and_release; else it releases and tries
\* again. Every call is unwrapped: a call that fails ends the worker.
Running(p) == ret[p].kind \notin {"lost", "err"} /\ wins[p] < Rounds

Mine(p) == Len(guards[p][1].data) = 2 * wins[p] + (p - 1)

WorkerLock(p) == Running(p) /\ Lock(p)

WorkerAppend(p) ==
  /\ Running(p) /\ guards[p][1].state = "held" /\ Mine(p)
  /\ UpdateAndRelease(p, 1, guards[p][1].data \o <<Space>>)

WorkerRelease(p) ==
  /\ Running(p) /\ guards[p][1].state = "held" /\ ~Mine(p)
  /\ Release(p, 1)

NextLease ==
  \/ Second
  \/ Tick
  \/ \E p \in Procs :
       \/ PushStep(p)
       \/ MaybeRacedStep(p)
       \/ LockFetch(p)
       \/ WorkerLock(p)
       \/ WorkerAppend(p)
       \/ WorkerRelease(p)

SpecLease == Start(WorkerCalls) /\ [][NextLease]_vars

\* test_lost_lease: one process locks the empty ledger and makes a second
\* guard `other` (slot 2) of the first (slot 1); `other` renews and updates,
\* the first guard renews, updates, releases or is dropped
NextLost ==
  \/ Second
  \/ \E p \in {1} :
       \/ PushStep(p)
       \/ MaybeRacedStep(p)
       \/ branch = None /\ Lock(p)
       \/ LockFetch(p)
       \/ CloneGuard(p)
       \/ Renew(p, 2)
       \/ \E data \in Payloads : Update(p, 2, data)
       \/ Renew(p, 1)
       \/ \E data \in Payloads : Update(p, 1, data)
       \/ Release(p, 1)
       \/ Drop(p, 1)

SpecLost == Init /\ [][NextLost]_vars

\* the same two guards, each of which may also release or update and
\* release: whichever pushes first moves the tip past the commit of the other
NextDisplaced ==
  \/ NextLost
  \/ \E p \in {1} :
       \/ Release(p, 2)
       \/ Drop(p, 2)
       \/ \E s \in Slots, data \in Payloads : UpdateAndRelease(p, s, data)

SpecDisplaced == Init /\ [][NextDisplaced]_vars

\* ------------------------------------------------ a rewritten history
\* A third party rewrites the history of the remote branch, once: it forces
\* the branch to a root commit of its own (written under another identity, so
\* not a commit a handle can write again), or back to the parent of the tip.
\* The fetch of a handle takes the tracking ref there: the refspec that
\* `git remote add` configures is a forced one.
Rewritten == \E i \in DOMAIN commits : i \notin Walk(branch)

RewriteRoot ==
  /\ branch # None /\ ~Rewritten
  /\ commits' = Append(commits, [parent |-> None, tree |-> Encoded[<<>>, 0],
                                 prev |-> branch])
  /\ branch' = Len(commits) + 1
  /\ recent' = FALSE
  /\ quiet' = 0
  /\ UNCHANGED <<branch_ref, tracking_ref, tmp_ref, pc, call, lk, guards, ret,
                 calls, wins, wiped, remote, ir>>

RewriteReset ==
  /\ branch # None /\ ~Rewritten
  /\ commits[branch].parent # None
  /\ branch' = commits[branch].parent
  /\ quiet' = 0
  /\ UNCHANGED <<commits, branch_ref, tracking_ref, tmp_ref, pc, call, lk,
                 guards, ret, calls, recent, wins, wiped, remote, ir>>

NextRewrite ==
  \/ Second
  \/ Tick
  \/ RewriteRoot
  \/ RewriteReset
  \/ \E p \in Procs :
       \/ PushStep(p)
       \/ MaybeRacedStep(p)
       \/ Fetch(p)
       \/ \E old \in {None, branch_ref[p]} : Push(p, old, tb1)
       \/ UpdateWith(p, "update_with")
       \/ UpdateFetch(p)
       \/ Lock(p)
       \/ LockFetch(p)

\* one call more than elsewhere: a handle that has fetched the second commit
\* fetches again when the branch is back at the first
SpecRewrite == Start(MaxCalls + 1) /\ [][NextRewrite]_vars

\* ------------------------------------------------ trees of other writers
\* lock calls on a branch that handles also write with GitLedger::push
NextForeign ==
  \/ Second
  \/ Tick
  \/ \E p \in Procs :
       \/ PushStep(p)
       \/ MaybeRacedStep(p)
       \/ \E old \in {None, branch_ref[p]}, tree \in ForeignTrees : Push(p, old, tree)
       \/ Lock(p)
       \/ LockFetch(p)

\* one call more than elsewhere: a tree is pushed on the commit of a lock call
SpecForeign == Start(MaxCalls + 1) /\ [][NextForeign]_vars

\* ------------------------------------------------ encode and decode alone
\* the payloads and leases the codec is run on: leases of one byte, leases
\* whose low bytes are zero, leases whose high bytes are zero, up to the
\* largest integer of 31 bits
CodecPayloads == {<<>>, <<0>>, <<Space>>, <<255, 0>>, <<48, 49, 10>>}
CodecLeases ==
  {0, 1, 15, 16, 171, 255, 256, 257, 4096, 32512, 65535, 65536, 1048576,
   8323072, 16777216, 16777215, 268435456, 305419896, 2130706432, 2147483647}

StartCodec ==
  /\ commits = <<>>
  /\ branch = None
  /\ branch_ref = [p \in Procs |-> None]
  /\ tracking_ref = [p \in Procs |-> None]
  /\ tmp_ref = [p \in Procs |-> FALSE]
  /\ lk = [p \in Procs |-> NoLock]
  /\ guards = [p \in Procs |-> [s \in Slots |-> NoGuard]]
  /\ ret = [p \in Procs |-> NoRet]
  /\ calls = 0
  /\ recent = FALSE
  /\ quiet = 0
  /\ wins = [p \in Procs |-> 0]
  /\ wiped = {}
  /\ remote = TRUE
  /\ ir = [p \in Procs |-> NoInit]
  /\ \E data \in CodecPayloads, lease \in CodecLeases :
       /\ pc = [p \in Procs |-> IF p = 1 THEN "encode" ELSE "idle"]
       /\ call = [p \in Procs |->
                    IF p = 1 THEN [NoCall EXCEPT !.op = "codec", !.data = data,
                                                 !.lease = lease]
                    ELSE NoCall]

\* encode(repo, data, lease): the tree itself is kept, not its id
EncodeStep(p) ==
  /\ pc[p] = "encode"
  /\ pc' = [pc EXCEPT ![p] = "decode"]
  /\ call' = [call EXCEPT ![p].tree = encode(call[p].data, call[p].lease)]
  /\ UNCHANGED <<commits, branch, branch_ref, tracking_ref, tmp_ref, lk,
                 guards, ret, calls, recent, quiet, wins, wiped, remote, ir>>

\* decode(repo, tree): what it returns is kept as a guard would keep it
DecodeStep(p) ==
  /\ pc[p] = "decode"
  /\ pc' = [pc EXCEPT ![p] = "decoded"]
  /\ LET d == decode(call[p].tree)
     IN  /\ ret' = [ret EXCEPT ![p] = [NoRet EXCEPT !.op = "decode",
                                                    !.kind = d.kind]]
         /\ guards' = [guards EXCEPT ![p][1] =
                         [state |-> "decoded", commit |-> None,
                          lease |-> d.lease, data |-> d.data]]
  /\ UNCHANGED <<commits, branch, branch_ref, tracking_ref, tmp_ref, call, lk,
                 calls, recent, quiet, wins, wiped, remote, ir>>

NextCodec == \E p \in Procs : EncodeStep(p) \/ DecodeStep(p)

SpecCodec == StartCodec /\ [][NextCodec]_vars

\* ------------------------------------------------------------- init_repo
\* Two processes call init_repo on one local path, whose store is without
\* the remote at first.
StartInit ==
  /\ commits = <<>>
  /\ branch = None
  /\ branch_ref = [p \in Procs |-> None]
  /\ tracking_ref = [p \in Procs |-> None]
  /\ tmp_ref = [p \in Procs |-> FALSE]
  /\ pc = [p \in Procs |-> "idle"]
  /\ call = [p \in Procs |-> NoCall]
  /\ lk = [p \in Procs |-> NoLock]
  /\ guards = [p \in Procs |-> [s \in Slots |-> NoGuard]]
  /\ ret = [p \in Procs |-> NoRet]
  /\ calls = MaxCalls
  /\ recent = FALSE
  /\ quiet = 0
  /\ wins = [p \in Procs |-> 0]
  /\ wiped = {}
  /\ remote = FALSE
  /\ ir = [p \in Procs |-> NoInit]

\* `repo.try_find_remote(remote_name).is_some() || retryable`: the loop ends
breaks(found, retryable) == found \/ retryable

\* repo.try_find_remote(remote_name).is_some(). Whether a handle finds a
\* remote that was added to the store after the handle was opened is the
\* library's matter: a handle of either kind can be the one opened.
try_find_remote(p) == IF ir[p].live THEN remote ELSE ir[p].repo

\* what ends the call
InitReturn(p, kind) ==
  /\ pc' = [pc EXCEPT ![p] = "idle"]
  /\ call' = [call EXCEPT ![p] = NoCall]
  /\ ret' = [ret EXCEPT ![p] = [NoRet EXCEPT !.op = "init_repo", !.kind = kind]]

\* init_repo begins: the store is opened, or created without a remote
InitRepo(p, retryable) ==
  /\ Begin(p)
  /\ pc[p] = "idle"
  /\ pc' = [pc EXCEPT ![p] = "init_loop"]
  /\ call' = [call EXCEPT ![p] = [NoCall EXCEPT !.op = "init_repo"]]
  /\ \E live \in BOOLEAN :
       ir' = [ir EXCEPT ![p] = [NoInit EXCEPT !.retryable = retryable,
                                              !.repo = remote, !.live = live]]
  /\ UNCHANGED <<commits, branch, branch_ref, tracking_ref, tmp_ref, lk, guards,
                 wins, wiped, remote>>

\* one turn of `for attempt in 0..20`: break, or sleep 50 ms
InitLoop(p) ==
  /\ pc[p] = "init_loop"
  /\ IF breaks(try_find_remote(p), ir[p].retryable)
       THEN /\ pc' = [pc EXCEPT ![p] = "init_match"]
            /\ UNCHANGED ir
       ELSE /\ ir' = [ir EXCEPT ![p].attempt = @ + 1, ![p].slept = @ + 1]
            /\ pc' = [pc EXCEPT ![p] = IF ir[p].attempt + 1 = Attempts
                                         THEN "init_match" ELSE "init_loop"]
  /\ UNCHANGED <<commits, branch, branch_ref, tracking_ref, tmp_ref, call, lk,
                 guards, ret, calls, recent, quiet, wins, wiped, remote>>

\* `match repo.try_find_remote(remote_name)` after the loop
InitMatch(p) ==
  /\ pc[p] = "init_match"
  /\ IF try_find_remote(p) THEN InitReturn(p, "ok")
     ELSE IF ~ir[p].retryable THEN InitReturn(p, "err")
     ELSE /\ pc' = [pc EXCEPT ![p] = "init_add"]
          /\ UNCHANGED <<call, ret>>
  /\ UNCHANGED <<commits, branch, branch_ref, tracking_ref, tmp_ref, lk, guards,
                 calls, recent, quiet, wins, wiped, remote, ir>>

\* `git remote add <remote_name> <remote_spec>`, which fails when the store
\* has the remote by now or for a reason of its own; then init_repo again,
\* not retryable, on the store opened anew
InitAdd(p) ==
  /\ pc[p] = "init_add"
  /\ \E success \in {~remote, FALSE}, live \in BOOLEAN :
       IF success
         THEN /\ remote' = TRUE
              /\ ir' = [ir EXCEPT ![p] = [@ EXCEPT !.retryable = FALSE,
                                                   !.attempt = 0,
                                                   !.repo = TRUE,
                                                   !.live = live,
                                                   !.added = @ + 1]]
              /\ pc' = [pc EXCEPT ![p] = "init_loop"]
              /\ UNCHANGED <<call, ret>>
         ELSE /\ ir' = [ir EXCEPT ![p].added = @ + 1]
              /\ InitReturn(p, "err")
              /\ UNCHANGED remote
  /\ UNCHANGED <<commits, branch, branch_ref, tracking_ref, tmp_ref, lk, guards,
                 calls, recent, quiet, wins, wiped>>

NextInit ==
  \E p \in Procs :
    \/ InitRepo(p, TRUE)
    \/ InitRepo(p, FALSE)
    \/ InitLoop(p)
    \/ InitMatch(p)
    \/ InitAdd(p)

SpecInit == StartInit /\ [][NextInit]_vars

\* ------------------------------------------------------------ the claims
\* what the tree of commit `id` decodes to, and the same in the next state
Blob(id) == Decoded[commits[id].tree]
BlobNext(id) == Decoded[commits'[id].tree]

\* C1: two push calls by different handles with the same expected parent
\* never both return a commit id; the loser returns None (raced) or fails.
C1_AtMostOneWinner ==
  \A p, q \in Procs :
    (/\ p # q
     /\ ret[p].op = "push" /\ ret[q].op = "push"
     /\ ret[p].parent = ret[q].parent
     /\ ret[p].kind = "ok")
    => ret[q].kind \in {"raced", "err"}

C1_Witness ==
  \E p, q \in Procs :
    /\ p # q
    /\ ret[p].op = "push" /\ ret[p].kind = "ok" /\ ret[p].parent = None
    /\ ret[q].op = "push" /\ ret[q].kind = "raced" /\ ret[q].parent = None

\* C2: the commits reachable from the remote branch are all the commits the
\* remote ever took, in one chain: one root without a parent, no two
\* commits with the same parent, and each commit's parent is the tip that
\* its push replaced.
C2_LinearChain ==
  /\ Walk(branch) = DOMAIN commits
  /\ \A i \in DOMAIN commits : commits[i].prev = commits[i].parent
  /\ \A i, j \in DOMAIN commits : i # j => commits[i].parent # commits[j].parent
  /\ commits # <<>> => \E i \in DOMAIN commits : commits[i].parent = None

C2_Witness ==
  /\ Len(commits) = 2
  /\ \E p \in Procs : pc[p] = "maybe_raced"
  /\ \E i \in DOMAIN commits : Blob(i).kind = "ok" /\ Blob(i).lease # 0

\* C3: push(X, tree) returns a commit id only in a step in which the remote
\* branch was X; the id is new, the branch is that commit afterwards, and
\* the commit holds the given tree and X as its parent.
C3_PushIsCompareAndSwap ==
  [][\A p \in Procs :
       (/\ pc[p] = "push" /\ call[p].op = "push"
        /\ pc'[p] = "idle" /\ ret'[p].kind = "ok")
       => /\ branch = call[p].old_commit_id
          /\ ret'[p].commit \notin DOMAIN commits
          /\ branch' = ret'[p].commit
          /\ Objects[commits'[branch'].tree] = Objects[call[p].tree]
          /\ commits'[branch'].parent = call[p].old_commit_id]_vars

C3_Witness ==
  \E p \in Procs :
    /\ ret[p].op = "push" /\ ret[p].kind = "ok" /\ ret[p].parent # None
    /\ Objects[commits[ret[p].commit].tree] = tb2

\* the calls that succeeded, of all processes
Wins == wins[1] + wins[2]

\* C9: every update_with or update_once_with that succeeded added one
\* commit, whose tree is the transform of its parent's tree, so after N
\* successes from an empty remote the counter on the remote is N - 1.
C9_CounterCountsWins ==
  /\ Len(commits) = Wins
  /\ branch = None => Wins = 0
  /\ branch # None => parse(Objects[commits[branch].tree][1].oid) = Wins - 1
  /\ \A i \in DOMAIN commits :
       Objects[commits[i].tree] =
         Increment(IF commits[i].parent = None THEN <<>>
                   ELSE <<Objects[commits[commits[i].parent].tree]>>)[2]

C9_Witness ==
  /\ Wins >= 2
  /\ \E p \in wiped : ret[p].op = "update_with" /\ ret[p].kind = "ok"
\* C5: a lock call pushes its claim over a non-zero lease that nobody has
\* changed since the call first fetched it only when at least lease_length
\* has passed since that first fetch; and the guard a lock call returns
\* holds the payload of the commit it claimed over.
C5_StealsOnlyAfterLeaseLength ==
  \A p \in Procs :
    /\ (/\ pc[p] = "push" /\ call[p].op = "lock"
        /\ call[p].old_commit_id # None
        /\ Blob(call[p].old_commit_id).lease # 0
        /\ lk[p].first = call[p].old_commit_id)
       => lk[p].age >= LeaseLength
    /\ (/\ ret[p].op = "lock" /\ ret[p].kind = "ok"
        /\ guards[p][1].state = "held"
        /\ commits[ret[p].commit].parent # None)
       => /\ guards[p][1].commit = ret[p].commit
          /\ guards[p][1].data = Blob(commits[ret[p].commit].parent).data

C5_Witness ==
  \E p, q \in Procs :
    /\ ret[p].op = "lock" /\ ret[p].kind = "ok"
    /\ commits[ret[p].commit].parent # None
    /\ Blob(commits[ret[p].commit].parent).lease # 0
    /\ guards[p][1].data # <<>>
    /\ guards[q][1].state = "held"
    /\ guards[q][1].commit = commits[ret[p].commit].parent

\* C7: the push of a release that succeeds leaves the remote at (the
\* guard's payload, lease 0), that of an update_and_release(x) at (x, 0); a
\* lock call that fetches a tip of lease 0 pushes its claim at once, with the
\* tip's payload, and the guard it returns holds that payload.
C7_ReleaseLeavesLeaseZero ==
  [][\A p \in Procs :
       /\ (/\ PushStep(p)
           /\ call[p].op \in {"release", "update_and_release"}
           /\ call[p].pending = "none" /\ call'[p].pending = "ok")
          => /\ BlobNext(branch') = [kind |-> "ok", data |-> call[p].data, lease |-> 0]
             /\ call[p].op = "release" => call[p].data = guards[p][call[p].slot].data
       /\ (/\ LockFetch(p)
           /\ branch # None /\ Blob(branch).kind = "ok" /\ Blob(branch).lease = 0)
          => /\ pc'[p] = "push"
             /\ call'[p].old_commit_id = branch
             /\ call'[p].data = Blob(branch).data
       /\ (PushStep(p) /\ call[p].op = "lock" /\ ret'[p].kind = "ok")
          => /\ guards'[p][1].state = "held"
             /\ guards'[p][1].data = call[p].data]_vars

C7_Witness ==
  \E p, q \in Procs :
    /\ ret[q].op = "update_and_release" /\ ret[q].kind = "ok"
    /\ ret[p].op = "lock" /\ ret[p].kind = "ok"
    /\ commits[ret[p].commit].parent # None
    /\ Blob(commits[ret[p].commit].parent).lease = 0
    /\ guards[p][1].data # <<>>
    /\ guards[p][1].data = Blob(commits[ret[p].commit].parent).data

\* C8: the push of a guard that is dropped without having been released
\* leaves the remote at (the guard's payload, lease 0) when the guard's
\* commit is the remote tip, and leaves the remote as it is otherwise; the
\* drop ends without an error either way.
C8_DropReleasesOrLeaves ==
  [][\A p \in Procs :
       /\ (PushStep(p) /\ call[p].op = "drop")
          => IF branch = call[p].old_commit_id
               THEN /\ BlobNext(branch') = [kind |-> "ok",
                                        data |-> guards[p][call[p].slot].data,
                                        lease |-> 0]
                    /\ commits'[branch'].parent = branch
                    /\ ret'[p] = [op |-> "drop", kind |-> "ok",
                                  commit |-> None, parent |-> None]
               ELSE /\ branch' = branch /\ commits' = commits
                    /\ \/ pc'[p] = "maybe_raced" /\ ret'[p] = NoRet
                       \/ ret'[p] = [op |-> "drop", kind |-> "ok",
                                     commit |-> None, parent |-> None]
       /\ (MaybeRacedStep(p) /\ call[p].op = "drop")
          => /\ branch' = branch /\ commits' = commits
             /\ ret'[p] = [op |-> "drop", kind |-> "ok",
                           commit |-> None, parent |-> None]]_vars

C8_Witness ==
  \E p \in Procs :
    /\ ret[p].op = "drop" /\ ret[p].kind = "ok"
    /\ branch # None /\ Blob(branch).lease = 0 /\ Blob(branch).data # <<>>
    /\ commits[branch].parent # None
    /\ Blob(commits[branch].parent).lease # 0
\* C4: of two guards of one ledger that held the same commit, once the
\* second has renewed or updated, a renew, update or release of the first
\* fails with a lost lease, and the renews and updates of the second go on
\* succeeding, its data being the payload it wrote last.
C4_StaleGuardLosesLease ==
  [][\A p \in Procs :
       LET c == call[p]
           A == c.op \in {"renew", "update", "release"} /\ c.slot = 1
                /\ c.pending = "none"
           B == c.op \in {"renew", "update"} /\ c.slot = 2
       IN
       /\ (PushStep(p) /\ A /\ c.old_commit_id # branch)
          => pc'[p] = "maybe_raced"
       /\ (MaybeRacedStep(p) /\ A)
          => \/ ret'[p].kind = "lost"
             \/ c.op = "release" /\ call'[p].pending = "lost"
       /\ (PushStep(p) /\ B /\ c.old_commit_id = branch)
          => /\ ret'[p].kind = "ok"
             /\ guards'[p][2].commit = branch'
             /\ guards'[p][2].data = c.data
             /\ BlobNext(branch').data = c.data
             /\ c.op = "renew" => c.data = guards[p][2].data]_vars

\* the payload on the remote
Payload == IF branch = None THEN <<>> ELSE Blob(branch).data

C6_LockReturnsAfterHolderStops ==
  /\ \A p \in Procs :
       (pc[p] = "lock_fetch") ~> (ret[p].op = "lock" /\ ret[p].kind = "ok")
  /\ [](\A p \in Procs :
          (call[p].op = "lock" /\ lk[p].first = branch)
          => lk[p].age <= LeaseLength + PollTime)

C6_Witness ==
  \E p, q \in Procs :
    /\ p # q
    /\ ret[p].op = "lock" /\ ret[p].kind = "ok"
    /\ commits[ret[p].commit].parent # None
    /\ Blob(commits[ret[p].commit].parent).lease # 0
    /\ ret[q].op = "update" /\ ret[q].kind = "ok"
    /\ guards[q][1].state = "none"
    /\ guards[p][1].data # <<>>

\* C11: decode(encode(p, l)) returns (p, l) for every payload p and lease
\* l, and the tree encode makes has one entry, named by the 16 lowercase hex
\* digits of the bytes of l, lowest byte first.
C11_CodecRoundTrip ==
  \A p \in Procs :
    LET tree == call[p].tree
        name == tree[1].filename
        digit(c) == CHOOSE i \in 0 .. 15 :
                      <<"0", "1", "2", "3", "4", "5", "6", "7",
                        "8", "9", "a", "b", "c", "d", "e", "f">>[i + 1] = c
        byte(i) == 16 * digit(name[2 * i - 1]) + digit(name[2 * i])
    IN
    /\ pc[p] \in {"decode", "decoded"}
       => /\ Len(tree) = 1
          /\ tree[1].oid = call[p].data
          /\ Len(name) = 16
          /\ \A i \in 1 .. 16 :
               name[i] \in {"0", "1", "2", "3", "4", "5", "6", "7",
                            "8", "9", "a", "b", "c", "d", "e", "f"}
          /\ \A i \in 5 .. 8 : byte(i) = 0
          /\ byte(1) + 256 * (byte(2) + 256 * (byte(3) + 256 * byte(4)))
               = call[p].lease
    /\ pc[p] = "decoded"
       => /\ ret[p].kind = "ok"
          /\ guards[p][1].data = call[p].data
          /\ guards[p][1].lease = call[p].lease

C11_Witness ==
  \E p \in Procs :
    /\ pc[p] = "decoded"
    /\ call[p].lease = 16777216
    /\ call[p].data = <<255, 0>>
    /\ guards[p][1].lease = 16777216
    /\ call[p].tree[1].filename[7] = "0" /\ call[p].tree[1].filename[8] = "1"

\* C12: a lock call that fetches a remote without the branch takes the state
\* for (empty payload, lease 0): it has not waited, it pushes its claim at
\* once, on no parent and with the empty payload, and when that push
\* succeeds the remote tip is a root commit and the guard's data is empty.
C12_LockOnAbsentBranch ==
  [][\A p \in Procs :
       /\ (LockFetch(p) /\ branch = None)
          => /\ lk[p].first = -1 /\ lk[p].age = 0
             /\ pc'[p] = "push"
             /\ lk'[p].sleep = 0
             /\ call'[p].old_commit_id = None
             /\ call'[p].data = <<>>
             /\ Decoded[call'[p].tree].data = <<>>
       /\ (/\ PushStep(p) /\ call[p].op = "lock"
           /\ call[p].old_commit_id = None /\ ret'[p].kind = "ok")
          => /\ branch' = ret'[p].commit
             /\ commits'[branch'].parent = None
             /\ BlobNext(branch').data = <<>>
             /\ guards'[p][1].state = "held"
             /\ guards'[p][1].commit = branch'
             /\ guards'[p][1].data = <<>>]_vars

C12_Witness ==
  \E p \in Procs :
    /\ ret[p].op = "lock" /\ ret[p].kind = "ok"
    /\ commits[ret[p].commit].parent = None
    /\ guards[p][1].state = "held"
    /\ guards[p][1].commit = branch
    /\ guards[p][1].data = <<>>

\* C13: fetch returns the commit that is the remote branch at the time of
\* the fetch, with its tree, whether the local store is new or behind, and
\* absent exactly when the remote has no such branch; what a handle's fetch
\* returns is never an earlier commit of the chain than what the handle
\* fetched before.
C13_FetchReturnsRemoteTip ==
  [][\A p \in Procs :
       Fetch(p)
       => /\ ret'[p].op = "fetch" /\ ret'[p].kind = "ok"
          /\ ret'[p].commit = branch
          /\ (ret'[p].commit = None) <=> (branch = None)
          /\ branch_ref'[p] = branch
          /\ branch_ref[p] # None => branch_ref[p] \in Walk(ret'[p].commit)
          /\ (ret[p].op = "fetch" /\ ret[p].commit # None)
               => ret[p].commit \in Walk(ret'[p].commit)]_vars

C13_Witness ==
  \E p \in Procs :
    /\ p \in wiped
    /\ ret[p].op = "fetch" /\ ret[p].kind = "ok"
    /\ ret[p].commit = branch
    /\ commits[branch].parent # None
    /\ \E q \in Procs \ {p} : ret[q].op = "push" /\ ret[q].commit = branch

\* C14: an update_once_with call fetches once, runs the transform once and
\* pushes once, and returns what came of it, raced included; an update_with
\* call fetches again only after an attempt that was raced, runs the
\* transform on the state it has just fetched, and returns when a push
\* succeeds.
C14_OneAttemptPerFetch ==
  [][\A p \in Procs :
       LET op == call[p].op
           fresh == IF branch = None THEN <<>> ELSE <<Objects[commits[branch].tree]>>
       IN
       op \in {"update_once_with", "update_with"} =>
         \* the fetch, the transform on what was fetched, then the push
         /\ (pc[p] = "update_fetch" /\ pc'[p] # "update_fetch")
            => /\ pc'[p] = "push"
               /\ call'[p].old_commit_id = branch
               /\ Objects[call'[p].tree] = Increment(fresh)[2]
         /\ (pc[p] # "push" /\ pc'[p] = "push") => pc[p] = "update_fetch"
         /\ (pc[p] = "push" /\ pc'[p] # "push")
            => \/ pc'[p] = "maybe_raced" /\ call'[p] = call[p]
               \/ pc'[p] = "idle" /\ ret'[p].op = op /\ ret'[p].kind = "ok"
         \* another fetch only in update_with, only after a raced attempt
         /\ (pc[p] # "update_fetch" /\ pc'[p] = "update_fetch")
            => /\ op = "update_with"
               /\ pc[p] = "maybe_raced"
               /\ branch # call[p].old_commit_id
         /\ (MaybeRacedStep(p) /\ op = "update_once_with")
            => pc'[p] = "idle" /\ ret'[p].op = op /\ ret'[p].kind = "raced"
         /\ (MaybeRacedStep(p) /\ op = "update_with")
            => pc'[p] = "update_fetch" /\ ret'[p] = NoRet]_vars

C14_Witness ==
  \E p, q \in Procs :
    /\ pc[p] = "update_fetch" /\ call[p].op = "update_with"
    /\ call[p].tree # 0 /\ call[p].old_commit_id # branch
    /\ ret[q].op = "update_once_with" /\ ret[q].kind = "ok"

\* C15: after a git push that failed, push returns None (raced) exactly when
\* the remote tip it then fetches is not the expected parent, and then the
\* tip is a commit pushed after the expected parent was the tip; when the
\* fetched tip is the expected parent the call fails with an error; the
\* remote branch is changed by none of this.
C15_RacedIffTipMoved ==
  [][\A p \in Procs :
       /\ ((PushStep(p) \/ PushRejectedStep(p)) /\ pc'[p] = "maybe_raced")
          => branch' = branch /\ commits' = commits
       /\ (MaybeRacedStep(p) /\ call[p].op = "push")
          => LET old == call[p].old_commit_id IN
             /\ branch' = branch /\ commits' = commits
             /\ tracking_ref'[p] = branch
             /\ ret'[p].op = "push"
             /\ (ret'[p].kind = "raced") <=> (tracking_ref'[p] # old)
             /\ (tracking_ref'[p] = old) => ret'[p].kind = "err"
             /\ ret'[p].kind = "raced"
                  => /\ branch # None
                     /\ old = None \/ old \in Walk(commits[branch].parent)]_vars

C15_Witness ==
  \E p, q \in Procs :
    /\ p # q
    /\ ret[p].op = "push" /\ ret[p].kind = "err"
    /\ ret[p].parent = branch /\ branch # None
    /\ tmp_ref[p]
    /\ ret[q].op = "push" /\ ret[q].kind = "raced" /\ ret[q].parent # branch

\* C16: once the remote tip has moved past the commit a guard holds, every
\* release, update, renew and update_and_release of the guard has its push
\* rejected and fails with a lost lease, the remote is as it was, and the
\* guard's commit never is the tip again.
C16_DisplacedGuardStaysLost ==
  [][\A p \in Procs :
       LET c == call[p]
           op == c.op \in {"release", "update", "renew", "update_and_release"}
                 /\ c.pending = "none"
       IN
       /\ (PushStep(p) /\ op /\ c.old_commit_id # branch)
          => /\ pc'[p] = "maybe_raced"
             /\ branch' = branch /\ commits' = commits
       /\ (MaybeRacedStep(p) /\ op)
          => /\ branch' = branch /\ commits' = commits
             /\ \/ ret'[p].op = c.op /\ ret'[p].kind = "lost"
                \/ call'[p].op = c.op /\ call'[p].pending = "lost"
       /\ \A s \in Slots :
            (/\ guards[p][s].state # "none" /\ guards[p][s].commit # branch
             /\ guards'[p][s].state # "none")
            => guards'[p][s].commit # branch']_vars

C16_Witness ==
  \E p \in Procs :
    /\ ret[p].op = "release" /\ ret[p].kind = "lost"
    /\ guards[p][2].state = "held" /\ guards[p][2].commit = branch
    /\ Blob(branch).lease # 0

\* C17: a lock call pushes a claim over a non-zero lease only when it has
\* seen that lease on its fetches for lease_length; the wait starts again
\* when the lease it sees changes and when its claim is raced; so the lock
\* call of another process displaces a holder, all of whose pushes wrote a
\* lease other than the one before, only when the holder has not pushed for
\* lease_length.
C17_RenewingHolderKeepsLease ==
  [][\A p \in Procs :
       LET seen == Blob(branch).lease IN
       /\ (LockFetch(p) /\ branch # None /\ seen # 0)
          => /\ pc'[p] = "push"
                => lk[p].old_lease = seen /\ lk[p].elapsed >= LeaseLength
             /\ seen # lk[p].old_lease
                => /\ pc'[p] = "lock_fetch"
                   /\ lk'[p].old_lease = seen /\ lk'[p].elapsed = 0
       /\ (MaybeRacedStep(p) /\ call[p].op = "lock")
          => /\ pc'[p] = "lock_fetch"
             /\ lk'[p].old_lease = 0 /\ lk'[p].elapsed = 0
       /\ (/\ PushStep(p) /\ call[p].op = "lock" /\ ret'[p].kind = "ok"
           /\ branch # None /\ branch = call[p].old_commit_id
           /\ \E q \in Procs \ {p} : /\ guards[q][1].state = "held"
                                      /\ guards[q][1].commit = branch
           /\ \A i \in DOMAIN commits :
                commits[i].parent # None
                => Blob(i).lease # Blob(commits[i].parent).lease)
          => quiet >= LeaseLength]_vars

C17_Witness ==
  \E p, q \in Procs :
    /\ p # q
    /\ ret[p].op = "lock" /\ ret[p].kind = "ok"
    /\ guards[p][1].commit = branch
    /\ guards[q][1].state = "held" /\ guards[q][1].commit = commits[branch].parent
    /\ ret[q].op = "renew" /\ ret[q].kind = "ok"
    /\ Blob(guards[q][1].commit).lease # 0
    /\ Blob(commits[guards[q][1].commit].parent).lease # 0

\* C18: when push has returned, with a commit id, with None or with an
\* error, the ephemeral ref of the handle does not exist, and the next push
\* of the handle can create it.
C18_EphemeralRefDeleted ==
  \A p \in Procs :
    /\ pc[p] \notin {"push", "maybe_raced"} => ~tmp_ref[p]
    /\ (pc[p] = "push" /\ call[p].op = "push") => ~tmp_ref[p]

C18_Witness ==
  \E p, q \in Procs :
    /\ p # q
    /\ ret[p].op = "push" /\ ret[p].kind = "raced" /\ ~tmp_ref[p]
    /\ ret[q].op = "push" /\ ret[q].kind = "err" /\ ~tmp_ref[q]

\* C19: the lease that lock, update and renew write is never 0; so while
\* the commit of a guard that has not been released is the remote tip, the
\* lease on the remote is not 0, and the lock call of another process that
\* fetches this tip does not push a claim before lease_length has passed.
C19_LeaseNeverZero ==
  \A p \in Procs :
    /\ (pc[p] = "push" /\ call[p].op \in {"lock", "update", "renew"})
       => call[p].lease # 0
    /\ \A s \in Slots :
         (guards[p][s].state = "held" /\ guards[p][s].commit = branch)
         => /\ Blob(branch).lease # 0
            /\ \A q \in Procs \ {p} :
                 (/\ pc[q] = "push" /\ call[q].op = "lock"
                  /\ call[q].old_commit_id = branch)
                 => lk[q].elapsed >= LeaseLength

C19_Witness ==
  \E p, q \in Procs :
    /\ p # q
    /\ guards[p][1].state = "held" /\ guards[p][1].commit = branch
    /\ ret[p].op = "update" /\ ret[p].kind = "ok"
    /\ Blob(branch).lease # 0
    /\ pc[q] = "lock_fetch" /\ lk[q].old_lease = Blob(branch).lease
    /\ lk[q].sleep > 0

\* C20: a guard that goes out of scope pushes a release only when neither
\* release nor update_and_release was called on it; once one of the two has
\* made its push, the guard's destruction pushes nothing.
C20_NoPushAfterRelease ==
  \A p \in Procs :
    /\ call[p].op = "drop" => pc[p] \in {"push", "maybe_raced"}
    /\ (/\ call[p].op \in {"release", "update_and_release"}
        /\ call[p].pending # "none")
       => pc[p] \notin {"push", "maybe_raced"}

C20_Witness ==
  \E p \in Procs :
    /\ ret[p].op = "drop" /\ ret[p].kind = "ok"
    /\ guards[p][1].state = "none"
    /\ branch # None /\ Blob(branch).lease = 0
    /\ commits[branch].parent # None
    /\ calls = MaxCalls - 2

\* C21: when release or update_and_release has returned from its push, with
\* success or with a lost lease, the push that the destruction of the
\* consumed guard makes leaves the remote tip, its payload and its lease as
\* they were, also when another process has taken the lease in between and
\* when update_and_release wrote another payload than the guard's.
C21_DropAfterReleaseChangesNothing ==
  [][\A p \in Procs :
       (/\ PushStep(p) \/ MaybeRacedStep(p)
        /\ call[p].op \in {"release", "update_and_release"}
        /\ call[p].pending # "none")
       => /\ branch' = branch
          /\ commits' = commits
          /\ BlobNext(branch') = Blob(branch)
          /\ pc'[p] = "idle"
               => ret'[p].op = call[p].op /\ ret'[p].kind = call[p].pending]_vars

C21_Witness ==
  \E p, q \in Procs :
    /\ p # q
    /\ pc[p] = "maybe_raced"
    /\ call[p].op = "update_and_release" /\ call[p].pending = "ok"
    /\ guards[q][1].state = "held" /\ guards[q][1].commit = branch
    /\ commits[branch].parent # None
    /\ commits[commits[branch].parent].parent = call[p].old_commit_id
    /\ Blob(commits[branch].parent).lease = 0
    /\ Blob(commits[branch].parent).data # call[p].data

\* C22: an update or a renew of a guard changes the guard's payload, lease
\* and commit only when its push succeeds, and then to what it pushed; when
\* the call fails, with a lost lease or with an error of the push, the three
\* fields are what they were before the call.
C22_FailedCallKeepsGuard ==
  [][\A p \in Procs :
       LET c == call[p]
           s == c.slot
       IN
       /\ (/\ PushStep(p) \/ MaybeRacedStep(p)
           /\ c.op \in {"update", "renew"}
           /\ pc'[p] = "idle")
          => IF ret'[p].kind = "ok"
               THEN guards'[p][s] = [state |-> "held", commit |-> branch',
                                     lease |-> c.lease, data |-> c.data]
               ELSE /\ ret'[p].kind \in {"lost", "err"}
                    /\ guards'[p][s].commit = c.old_commit_id
                    /\ guards'[p][s].data = guards[p][s].data
                    /\ guards'[p][s].lease = c.old_lease
       /\ (pc[p] = "idle" /\ pc'[p] = "push" /\ call'[p].op \in {"update", "renew"})
          => LET t == call'[p].slot IN
             /\ call'[p].old_commit_id = guards[p][t].commit
             /\ call'[p].old_lease = guards[p][t].lease
             /\ guards'[p][t].commit = guards[p][t].commit
             /\ guards'[p][t].data = guards[p][t].data]_vars

C22_Witness ==
  \E p \in Procs :
    /\ ret[p].op = "update" /\ ret[p].kind = "lost"
    /\ guards[p][1].state = "held" /\ guards[p][1].commit # branch
    /\ guards[p][1].data = Blob(guards[p][1].commit).data
    /\ guards[p][2].state = "held" /\ guards[p][2].commit = branch
    /\ Blob(branch).data # guards[p][1].data

\* the remote branch is not the local branch ref of p nor a descendant of it
Diverged(p) ==
  branch # None /\ branch_ref[p] # None /\ branch_ref[p] \notin Walk(branch)

\* C23: the local branch ref of a handle only moves to the tracking ref just
\* fetched, and only from absent or from an ancestor of it; a fetch that
\* finds the tracking ref not to descend from the local branch ref fails,
\* in fetch, update_with, lock and the check of a lost race alike, leaves the
\* local branch ref as it is and pushes nothing; any other fetch succeeds
\* and leaves the local branch ref at the remote branch.
C23_BranchRefOnlyFastForwards ==
  [][\A p \in Procs :
       /\ branch_ref'[p] # branch_ref[p]
          => /\ branch_ref'[p] = tracking_ref'[p]
             /\ tracking_ref'[p] = branch
             /\ branch_ref[p] = None \/ branch_ref[p] \in Walk(branch_ref'[p])
       /\ (Fetch(p) \/ UpdateFetch(p) \/ LockFetch(p) \/ MaybeRacedStep(p))
          => IF Diverged(p)
               THEN /\ branch_ref'[p] = branch_ref[p]
                    /\ tracking_ref'[p] = branch
                    /\ pc'[p] = "idle"
                    /\ ret'[p].kind = "err"
                    /\ ret'[p].op = IF pc[p] = "idle" THEN "fetch" ELSE call[p].op
                    /\ guards'[p] = guards[p]
                    /\ branch' = branch /\ commits' = commits
               ELSE /\ branch # None => branch_ref'[p] = branch
                    /\ Fetch(p) => ret'[p].kind = "ok" /\ ret'[p].commit = branch
                    /\ (UpdateFetch(p) /\ Increment(IF branch = None THEN <<>>
                                        ELSE <<Objects[commits[branch].tree]>>)[1])
                         => pc'[p] = "push"]_vars

C23_Witness ==
  \E p, q \in Procs :
    /\ p # q
    /\ Diverged(p) /\ tracking_ref[p] = branch
    /\ ret[p].op = "lock" /\ ret[p].kind = "err"
    /\ Blob(branch).kind = "ok"
    /\ commits[branch].parent = None /\ commits[branch_ref[p]].parent = None
    /\ ret[q].op = "fetch" /\ ret[q].kind = "ok" /\ ret[q].commit = branch

\* C24: a lock call that fetches a tip whose tree has more than one entry,
\* or one entry whose name is not 16 hex digits (8 bytes), fails with an
\* error and pushes nothing; on a tip whose tree has no entry or one entry
\* with such a name the call goes on, to its claim or to its wait, and the
\* process is not aborted.
C24_LockChecksTreeFormat ==
  [][\A p \in Procs :
       (LockFetch(p) /\ branch # None)
       => LET tree == Objects[commits[branch].tree]
              name == tree[1].filename
              digits == {"0", "1", "2", "3", "4", "5", "6", "7", "8", "9",
                         "a", "b", "c", "d", "e", "f",
                         "A", "B", "C", "D", "E", "F"}
              well_formed == Len(name) = 16 /\ \A i \in 1 .. 16 : name[i] \in digits
          IN  IF Len(tree) > 1 \/ (Len(tree) = 1 /\ ~well_formed)
                THEN /\ pc'[p] = "idle"
                     /\ ret'[p].op = "lock" /\ ret'[p].kind = "err"
                     /\ guards'[p] = guards[p]
                     /\ branch' = branch /\ commits' = commits
                ELSE /\ pc'[p] \in {"push", "lock_fetch"}
                     /\ pc'[p] = "push"
                          => /\ call'[p].old_commit_id = branch
                             /\ call'[p].data = IF Len(tree) = 0 THEN <<>>
                                                ELSE tree[1].oid]_vars

C24_Witness ==
  \E p, q \in Procs :
    /\ p # q
    /\ ret[p].op = "lock" /\ ret[p].kind = "err"
    /\ guards[p][1].state = "none" /\ pc[p] = "idle"
    /\ branch # None /\ tracking_ref[p] = branch
    /\ Objects[commits[branch].tree] = two_entries
    /\ commits[branch].parent # None
    /\ Objects[commits[commits[branch].parent].tree] = upper_name
    /\ ret[q].op = "push" /\ ret[q].kind = "ok" /\ ret[q].commit = branch

\* C25: init_repo runs `git remote add` only when it has looked for the
\* remote 20 times, 50 ms apart, and not found it, and at most once in a
\* call; it then opens the store again and looks once more, it makes no
\* more than 20 attempts at a time, and it returns the repository only when
\* the store has the remote, an error otherwise.
C25_PollsBeforeAdding ==
  [][\A p \in Procs :
       /\ InitAdd(p)
          => /\ ir[p].slept >= Attempts - 1
             /\ ir[p].added = 0
             /\ pc'[p] = "init_loop"
                  => /\ remote' /\ ir'[p].repo
                     /\ ~ir'[p].retryable /\ ir'[p].attempt = 0
       /\ ir'[p].added <= 1
       /\ ir'[p].attempt <= Attempts /\ ir'[p].slept <= ir'[p].attempt
       /\ (InitMatch(p) \/ InitAdd(p)) /\ pc'[p] = "idle"
          => /\ ret'[p].op = "init_repo"
             /\ ret'[p].kind \in {"ok", "err"}
             /\ ret'[p].kind = "ok" => remote'
             /\ (InitMatch(p) /\ ret'[p].kind = "err")
                  => ~ir[p].retryable /\ ~try_find_remote(p)]_vars

C25_Witness ==
  \E p, q \in Procs :
    /\ p # q
    /\ ret[p].op = "init_repo" /\ ret[p].kind = "ok" /\ ir[p].added = 1
    /\ remote
    /\ ret[q].op = "init_repo" /\ ret[q].kind = "err"
    /\ ir[q].slept = Attempts /\ ir[q].added = 0
====
